---- MODULE Spec2Model ----
(***************************************************************************)
(* Model of genpass.py: the password generator generate_password, its      *)
(* entropy computation, and the calling layer main (argument handling,     *)
(* interactive prompts, printing, clipboard copy and timed clear).         *)
(*                                                                         *)
(* Characters are modelled by their ASCII codes, strings by sequences of   *)
(* codes.  The secure random source is modelled by a family of index       *)
(* streams: the k-th call of randbelow(n) on stream [a, b] returns         *)
(* (a + b*k) % n.  Every such stream is a possible output of the random    *)
(* source, so every behaviour of the model is a behaviour of the program.  *)
(***************************************************************************)
EXTENDS Integers, Sequences, FiniteSets, TLC

\* ------------------------------------------------------------------ bounds
\* core requests use lengths -1 .. MaxLength
MaxLength == 9
\* random streams [a, b] with a in 0..MaxSeed, b in 0..MaxStep
MaxSeed == 2
MaxStep == 2
\* --count takes values 0 .. MaxCount
MaxCount == 2

\* --------------------------------------------------------- configuration
MIN_LENGTH == 8
MAX_LENGTH == 128
DEFAULT_LENGTH == 20

CHARS_LOWER == [i \in 1..26 |-> 96 + i]
CHARS_UPPER == [i \in 1..26 |-> 64 + i]
CHARS_DIGITS == [i \in 1..10 |-> 47 + i]
\* string.punctuation: !"#$%&'()*+,-./ :;<=>?@ [\]^_` {|}~
CHARS_SYMBOLS ==
    [i \in 1..32 |-> IF i <= 15 THEN 32 + i
                     ELSE IF i <= 22 THEN 42 + i
                     ELSE IF i <= 28 THEN 68 + i
                     ELSE 94 + i]
\* "!#%&()*+,-./:;=?@[]^{}~_"
CHARS_SYMBOLS_SAFE ==
    << 33, 35, 37, 38, 40, 41, 42, 43, 44, 45, 46, 47, 58, 59, 61, 63, 64,
       91, 93, 94, 123, 125, 126, 95 >>

EXIT_SUCCESS == 0
EXIT_ARG_ERROR == 1
EXIT_SYS_ERROR == 2
EXIT_TEST_FAIL == 3

\* the four ValueError messages of generate_password, by the kind they report
InvalidPool == "InvalidPool"
NoCategorySelected == "NoCategorySelected"
LengthTooShort == "LengthTooShort"
LengthBelowCategoryMinimum == "LengthBelowCategoryMinimum"
NoError == "none"

\* ----------------------------------------------------------------- helpers
Range(s) == {s[i] : i \in 1..Len(s)}

\* an optional argument: Python None is [given |-> FALSE]
None == [given |-> FALSE, val |-> << >>]
Some(v) == [given |-> TRUE, val |-> v]

\* Python truthiness of an optional string: None and "" are both false
Truthy(custom) == custom.given /\ Len(custom.val) > 0

RECURSIVE FloorLog2(_)
FloorLog2(n) == IF n < 2 THEN 0 ELSE 1 + FloorLog2(n \div 2)

\* The floating-point values of the program are modelled in fixed point, in
\* units of 1/1024 bit.  Log2Frac gives the 10 fractional bits of log2 of a
\* mantissa x in [4096, 8192) (that is [1, 2) scaled by 4096), by repeated
\* squaring.
RECURSIVE Log2Frac(_, _)
Log2Frac(x, bits) ==
    IF bits = 0 THEN 0
    ELSE LET sq == (x * x) \div 4096
         IN  IF sq >= 8192
             THEN 2 ^ (bits - 1) + Log2Frac(sq \div 2, bits - 1)
             ELSE Log2Frac(sq, bits - 1)

\* math.log2(n) for an integer n >= 1, in units of 1/1024
Log2(n) ==
    LET e == FloorLog2(n)
    IN  e * 1024 + Log2Frac((n * 4096) \div (2 ^ e), 10)

calculate_entropy(pool_size, length) ==
    IF pool_size = 0 \/ length = 0 THEN 0 ELSE length * Log2(pool_size)

\* sample values of --custom / custom_chars: absent, "", "a", "aa", "ab",
\* "aab", "xY7"
CustomInputs ==
    {None, Some(<< >>), Some(<<97>>), Some(<<97, 97>>), Some(<<97, 98>>),
     Some(<<97, 97, 98>>), Some(<<120, 89, 55>>)}

\* -------------------------------------------------------- random source
Streams == [a : 0..MaxSeed, b : 0..MaxStep]

\* the value of the next randbelow(n) of frame f
randbelow(f, n) == (f.rng.a + f.rng.b * f.draws) % n

\* secrets.choice(seq)
choice(f, seq) == seq[randbelow(f, Len(seq)) + 1]

\* ------------------------------------------------------ generate_password
\* A call frame of generate_password: the arguments, the locals, the number
\* of random draws made so far, and the position in the body.
\*   pc: "build" (88-109), "validate" (111-116), "mandatory" (120-121),
\*       "fill" (122-123), "shuffle" (125), "return" (126),
\*       "returned", "raised"
Requests ==
    [length : -1..MaxLength,
     use_upper : BOOLEAN, use_lower : BOOLEAN,
     use_digits : BOOLEAN, use_symbols : BOOLEAN, use_safe : BOOLEAN,
     custom_chars : CustomInputs]

NewFrame(req, stream, draws0) ==
    [req |-> req, rng |-> stream, draws |-> draws0, pc |-> "build",
     pools |-> << >>, full_pool |-> << >>, password_chars |-> << >>,
     pool_idx |-> 1, fill_left |-> 0, shuffle_i |-> 0,
     err |-> NoError, password |-> << >>, entropy |-> 0]

\* no call in progress
Idle ==
    [NewFrame([length |-> 0, use_upper |-> FALSE, use_lower |-> FALSE,
               use_digits |-> FALSE, use_symbols |-> FALSE, use_safe |-> FALSE,
               custom_chars |-> None], [a |-> 0, b |-> 0], 0)
        EXCEPT !.pc = "idle"]

Raise(f, kind) == [f EXCEPT !.pc = "raised", !.err = kind]

\* lines 97-109: the enabled named pools, in the order lower, upper, digits,
\* symbols; the result is <<pools, full_pool>>
NamedPools(req) ==
    LET syms == IF req.use_safe THEN CHARS_SYMBOLS_SAFE ELSE CHARS_SYMBOLS
        p1 == IF req.use_lower THEN << CHARS_LOWER >> ELSE << >>
        p2 == IF req.use_upper THEN Append(p1, CHARS_UPPER) ELSE p1
        p3 == IF req.use_digits THEN Append(p2, CHARS_DIGITS) ELSE p2
        p4 == IF req.use_symbols THEN Append(p3, syms) ELSE p3
        f1 == IF req.use_lower THEN CHARS_LOWER ELSE << >>
        f2 == IF req.use_upper THEN f1 \o CHARS_UPPER ELSE f1
        f3 == IF req.use_digits THEN f2 \o CHARS_DIGITS ELSE f2
        f4 == IF req.use_symbols THEN f3 \o syms ELSE f3
    IN  << p4, f4 >>

\* faulty variant of BuildPools: a custom pool is added to the named pools
\* instead of replacing them
BuildPoolsCustomAdded(f) ==
    LET custom == f.req.custom_chars
        named == NamedPools(f.req)
    IN  IF Truthy(custom)
        THEN IF Cardinality(Range(custom.val)) < 2
             THEN Raise(f, InvalidPool)
             ELSE [f EXCEPT !.pools = << custom.val >> \o named[1],
                            !.full_pool = custom.val \o named[2],
                            !.pc = "validate"]
        ELSE [f EXCEPT !.pools = named[1], !.full_pool = named[2],
                       !.pc = "validate"]

\* lines 88-109
BuildPools(f) ==
    LET custom == f.req.custom_chars
        named == NamedPools(f.req)
    IN  IF Truthy(custom)
        THEN IF Cardinality(Range(custom.val)) < 2
             THEN Raise(f, InvalidPool)
             ELSE [f EXCEPT !.pools = << custom.val >>,
                            !.full_pool = custom.val,
                            !.pc = "validate"]
        ELSE [f EXCEPT !.pools = named[1], !.full_pool = named[2],
                       !.pc = "validate"]

\* line 125 is reached: Fisher-Yates runs i = len-1 down to 1 (0-based)
EnterShuffle(f) ==
    IF Len(f.password_chars) >= 2
    THEN [f EXCEPT !.pc = "shuffle", !.shuffle_i = Len(f.password_chars) - 1]
    ELSE [f EXCEPT !.pc = "return"]

\* faulty variant of FillCount: the mandatory characters are not subtracted
FillCountFromZero(f) == f.req.length

\* line 122: range(length - len(password_chars)), evaluated once
FillCount(f) == f.req.length - Len(f.password_chars)

EnterFill(f) ==
    LET n == FillCount(f)
    IN  IF n > 0 THEN [f EXCEPT !.pc = "fill", !.fill_left = n]
        ELSE EnterShuffle(f)

\* line 120: the for loop over pools starts, or is over
EnterMandatory(f) ==
    IF f.pool_idx <= Len(f.pools) THEN [f EXCEPT !.pc = "mandatory"]
    ELSE EnterFill(f)

\* faulty variant of Validate: the first character is drawn before the
\* length checks
ValidateAfterDraw(f) ==
    IF f.full_pool = << >> THEN Raise(f, NoCategorySelected)
    ELSE LET g == [f EXCEPT !.password_chars = << choice(f, f.full_pool) >>,
                            !.draws = @ + 1]
         IN  IF g.req.length < MIN_LENGTH THEN Raise(g, LengthTooShort)
             ELSE IF g.req.length < Len(g.pools)
                  THEN Raise(g, LengthBelowCategoryMinimum)
             ELSE EnterMandatory([f EXCEPT !.password_chars = << >>,
                                           !.pool_idx = 1])

\* faulty variant of Validate: the category-count check comes before the
\* minimum-length check
ValidateCategoryFirst(f) ==
    IF f.full_pool = << >> THEN Raise(f, NoCategorySelected)
    ELSE IF f.req.length < Len(f.pools)
         THEN Raise(f, LengthBelowCategoryMinimum)
    ELSE IF f.req.length < MIN_LENGTH THEN Raise(f, LengthTooShort)
    ELSE EnterMandatory([f EXCEPT !.password_chars = << >>, !.pool_idx = 1])

\* faulty variant of Validate: the minimum-length check comes before the
\* empty-pool check
ValidateLengthFirst(f) ==
    IF f.req.length < MIN_LENGTH THEN Raise(f, LengthTooShort)
    ELSE IF f.full_pool = << >> THEN Raise(f, NoCategorySelected)
    ELSE IF f.req.length < Len(f.pools)
         THEN Raise(f, LengthBelowCategoryMinimum)
    ELSE EnterMandatory([f EXCEPT !.password_chars = << >>, !.pool_idx = 1])

\* lines 111-118
Validate(f) ==
    IF f.full_pool = << >> THEN Raise(f, NoCategorySelected)
    ELSE IF f.req.length < MIN_LENGTH THEN Raise(f, LengthTooShort)
    ELSE IF f.req.length < Len(f.pools)
         THEN Raise(f, LengthBelowCategoryMinimum)
    ELSE EnterMandatory([f EXCEPT !.password_chars = << >>, !.pool_idx = 1])

\* faulty variant of MandatoryChar: the character is drawn from the whole
\* universe instead of the category's pool
MandatoryCharFromUniverse(f) == choice(f, f.full_pool)

\* line 121: secrets.choice(pool)
MandatoryChar(f) == choice(f, f.pools[f.pool_idx])

\* lines 120-121, one iteration
DrawMandatory(f) ==
    EnterMandatory([f EXCEPT !.password_chars = Append(@, MandatoryChar(f)),
                             !.draws = @ + 1,
                             !.pool_idx = @ + 1])

\* line 123: secrets.choice(full_pool)
FillChar(f) == choice(f, f.full_pool)

\* lines 122-123, one iteration
DrawFill(f) ==
    LET g == [f EXCEPT !.password_chars = Append(@, FillChar(f)),
                       !.draws = @ + 1,
                       !.fill_left = @ - 1]
    IN  IF g.fill_left > 0 THEN g ELSE EnterShuffle(g)

\* line 125, one iteration of random.shuffle: j = randbelow(i + 1);
\* x[i], x[j] = x[j], x[i]
ShuffleStep(f) ==
    LET i == f.shuffle_i + 1
        j == randbelow(f, f.shuffle_i + 1) + 1
        x == f.password_chars
        g == [f EXCEPT !.password_chars = [x EXCEPT ![i] = x[j], ![j] = x[i]],
                       !.draws = @ + 1,
                       !.shuffle_i = @ - 1]
    IN  IF g.shuffle_i >= 1 THEN g ELSE [g EXCEPT !.pc = "return"]

\* faulty variant of PoolSize: repeated characters are counted once
PoolSizeDistinct(f) == Cardinality(Range(f.full_pool))

\* line 126: the pool size passed to calculate_entropy
PoolSize(f) == Len(f.full_pool)

\* line 126
Return(f) ==
    [f EXCEPT !.password = f.password_chars,
              !.entropy = calculate_entropy(PoolSize(f), f.req.length),
              !.pc = "returned"]

Finished(f) == f.pc \in {"returned", "raised"}

\* one step of the body of generate_password
Step(f) ==
    CASE f.pc = "build" -> BuildPools(f)
      [] f.pc = "validate" -> Validate(f)
      [] f.pc = "mandatory" -> DrawMandatory(f)
      [] f.pc = "fill" -> DrawFill(f)
      [] f.pc = "shuffle" -> ShuffleStep(f)
      [] f.pc = "return" -> Return(f)
      [] OTHER -> f

\* n steps of the body (a finished frame stays as it is); the first half
\* is evaluated before the second half starts
RECURSIVE Steps(_, _)
Steps(f, n) ==
    IF n = 0 THEN f
    ELSE IF n = 1 THEN Step(f)
    ELSE LET h == Steps(f, n \div 2)
         IN  IF Finished(h) THEN h ELSE Steps(h, n - (n \div 2))

\* no call takes more steps than this: build, validate, at most four
\* mandatory draws, at most length fill draws and length swaps, return
MaxSteps(f) == 2 * (IF f.req.length > 0 THEN f.req.length ELSE 0) + 8

\* a whole call of generate_password
Run(f) == Steps(f, MaxSteps(f))

\* ------------------------------------------------------------------ state
VARIABLES
    gen,          \* the frame of the generate_password call in progress
    prev,         \* what the previous call with the same arguments returned
    mpc,          \* position in main
    cfg,          \* main: the cfg dict
    rng,          \* main: the random source, [a, b, draws]
    passwords,    \* main: the list of (formatted password, bits)
    raw,          \* main: the last password generate_password returned
    stdout,       \* main: the passwords printed so far
    clip_calls,   \* the calls of copy_to_clipboard so far, [text, ok]
    clipboard,    \* the content of the system clipboard
    gen_err,      \* main: the ValueError caught at line 300, if any
    exit_status   \* the exit status of the process, -1 while it runs

vars == << gen, prev, mpc, cfg, rng, passwords, raw, stdout, clip_calls,
           clipboard, gen_err, exit_status >>

coreVars == << gen, prev >>
mainVars == << mpc, cfg, rng, passwords, raw, stdout, clip_calls, clipboard,
               gen_err, exit_status >>

NoPrev == [calls |-> 0, length |-> 0, entropy |-> 0]

NoCfg ==
    [len |-> 0, u |-> FALSE, l |-> FALSE, d |-> FALSE, s |-> FALSE,
     safe |-> FALSE, custom |-> None, count |-> 0, copy |-> FALSE,
     clear |-> 0, group |-> 0, sep |-> << 45 >>]

Init ==
    /\ gen = Idle
    /\ prev = NoPrev
    /\ mpc = "start"
    /\ cfg = NoCfg
    /\ rng = [a |-> 0, b |-> 0, draws |-> 0]
    /\ passwords = << >>
    /\ raw = << >>
    /\ stdout = << >>
    /\ clip_calls = << >>
    /\ clipboard = << >>
    /\ gen_err = NoError
    /\ exit_status = -1

\* ------------------------------------------- generate_password, step by step
\* a caller invokes generate_password
Call ==
    /\ gen.pc = "idle"
    /\ \E req \in Requests, stream \in Streams :
          gen' = NewFrame(req, stream, 0)
    /\ prev' = NoPrev
    /\ UNCHANGED mainVars

BuildPoolsStep ==
    /\ gen.pc = "build"
    /\ gen' = BuildPools(gen)
    /\ UNCHANGED << prev, mainVars >>

ValidateStep ==
    /\ gen.pc = "validate"
    /\ gen' = Validate(gen)
    /\ UNCHANGED << prev, mainVars >>

DrawMandatoryStep ==
    /\ gen.pc = "mandatory"
    /\ gen' = DrawMandatory(gen)
    /\ UNCHANGED << prev, mainVars >>

DrawFillStep ==
    /\ gen.pc = "fill"
    /\ gen' = DrawFill(gen)
    /\ UNCHANGED << prev, mainVars >>

ShuffleStepStep ==
    /\ gen.pc = "shuffle"
    /\ gen' = ShuffleStep(gen)
    /\ UNCHANGED << prev, mainVars >>

ReturnStep ==
    /\ gen.pc = "return"
    /\ gen' = Return(gen)
    /\ UNCHANGED << prev, mainVars >>

\* the caller calls again with identical arguments; the random source
\* has moved on
CallAgain ==
    /\ gen.pc = "returned"
    /\ prev.calls = 0
    /\ prev' = [calls |-> 1, length |-> Len(gen.password),
                entropy |-> gen.entropy]
    /\ \E stream \in Streams : gen' = NewFrame(gen.req, stream, 0)
    /\ UNCHANGED mainVars

\* the caller is done with the result or the error
Release ==
    /\ \/ gen.pc = "raised"
       \/ gen.pc = "returned" /\ prev.calls = 1
    /\ gen' = Idle
    /\ prev' = NoPrev
    /\ UNCHANGED mainVars

Next ==
    \/ Call
    \/ BuildPoolsStep
    \/ ValidateStep
    \/ DrawMandatoryStep
    \/ DrawFillStep
    \/ ShuffleStepStep
    \/ ReturnStep
    \/ CallAgain
    \/ Release

Spec == Init /\ [][Next]_vars

\* ------------------------------------------------------------------- main
PRESETS ==
    [web |-> [len |-> 16, u |-> TRUE, l |-> TRUE, d |-> TRUE, s |-> TRUE,
              safe |-> TRUE],
     strong |-> [len |-> 32, u |-> TRUE, l |-> TRUE, d |-> TRUE, s |-> TRUE,
                 safe |-> FALSE],
     pin |-> [len |-> 8, u |-> FALSE, l |-> FALSE, d |-> TRUE, s |-> FALSE,
              safe |-> TRUE],
     wifi |-> [len |-> 24, u |-> FALSE, l |-> TRUE, d |-> TRUE, s |-> FALSE,
               safe |-> TRUE]]

\* an optional integer argument: None is [given |-> FALSE]
NoInt == [given |-> FALSE, val |-> 0]
SomeInt(n) == [given |-> TRUE, val |-> n]

\* Python truthiness of an optional integer: None and 0 are both false
TruthyInt(x) == x.given /\ x.val # 0

\* sample command lines
ArgLens ==
    {NoInt, SomeInt(0), SomeInt(MIN_LENGTH - 1), SomeInt(MIN_LENGTH),
     SomeInt(MAX_LENGTH + 1)}
ArgPresets == {"none", "web", "strong", "pin", "wifi"}
\* --upper, --lower, --digits, --symbols
ArgFlags ==
    { << FALSE, FALSE, FALSE, FALSE >>, << FALSE, TRUE, FALSE, FALSE >>,
      << FALSE, TRUE, TRUE, FALSE >>, << TRUE, TRUE, TRUE, TRUE >> }
ArgCustoms == {None, Some(<< >>), Some(<< 97 >>), Some(<< 97, 98 >>)}
Args ==
    [len : ArgLens, count : 0..MaxCount, preset : ArgPresets,
     flags : ArgFlags, safe : BOOLEAN, custom : ArgCustoms,
     group : {0, 4}, copy : BOOLEAN, clear : {0, 5}]

\* lines 244-261
ParseConfig(args) ==
    LET p == PRESETS[args.preset]
        any == args.flags[1] \/ args.flags[2] \/ args.flags[3]
               \/ args.flags[4] \/ Truthy(args.custom)
        base == [NoCfg EXCEPT !.custom = args.custom, !.count = args.count,
                              !.copy = args.copy, !.clear = args.clear,
                              !.group = args.group]
    IN  IF args.preset # "none"
        THEN [base EXCEPT
                !.len = IF TruthyInt(args.len) THEN args.len.val ELSE p.len,
                !.u = p.u, !.l = p.l, !.d = p.d, !.s = p.s,
                !.safe = IF args.safe THEN args.safe ELSE p.safe]
        ELSE [base EXCEPT
                !.len = IF TruthyInt(args.len) THEN args.len.val
                        ELSE DEFAULT_LENGTH,
                !.u = IF any THEN args.flags[1] ELSE TRUE,
                !.l = IF any THEN args.flags[2] ELSE TRUE,
                !.d = IF any THEN args.flags[3] ELSE TRUE,
                !.s = IF any THEN args.flags[4] ELSE TRUE,
                !.safe = args.safe]

\* the arguments main passes to generate_password (lines 266-268)
CfgRequest(c) ==
    [length |-> c.len, use_upper |-> c.u, use_lower |-> c.l,
     use_digits |-> c.d, use_symbols |-> c.s, use_safe |-> c.safe,
     custom_chars |-> c.custom]

RECURSIVE format_parts(_, _, _)
format_parts(password, group_size, separator) ==
    IF Len(password) <= group_size THEN password
    ELSE SubSeq(password, 1, group_size) \o separator
         \o format_parts(SubSeq(password, group_size + 1, Len(password)),
                         group_size, separator)

\* lines 130-134
format_output(password, group_size, separator) ==
    IF group_size > 0 THEN format_parts(password, group_size, separator)
    ELSE password

\* "\n".join(out_buf)
RECURSIVE JoinLines(_)
JoinLines(buf) ==
    IF Len(buf) = 0 THEN << >>
    ELSE IF Len(buf) = 1 THEN buf[1]
    ELSE buf[1] \o << 10 >> \o JoinLines(Tail(buf))

\* line 286
ClipText(out_buf) ==
    IF Len(out_buf) = 1 THEN out_buf[Len(out_buf)] ELSE JoinLines(out_buf)

Exit(status) == mpc' = "exit" /\ exit_status' = status

\* the random streams of the runs of main
MainStreams == {st \in Streams : st.b = 1}

\* line 265: the for loop goes on, or is over
LoopTarget(c, n) == IF n < c.count THEN "generate" ELSE "print"

\* lines 238-239: no arguments, interactive mode
StartInteractive ==
    /\ mpc = "start"
    /\ mpc' = "input_int"
    /\ \E stream \in MainStreams :
          rng' = [a |-> stream.a, b |-> stream.b, draws |-> 0]
    /\ UNCHANGED << coreVars, cfg, passwords, raw, stdout, clip_calls,
                    clipboard, gen_err, exit_status >>

\* what the user types at the length prompt: nothing, a non-number, a number
RawInts ==
    {[kind |-> "empty", val |-> 0], [kind |-> "text", val |-> 0]}
    \cup {[kind |-> "int", val |-> n] :
            n \in {MIN_LENGTH - 1, MIN_LENGTH, MAX_LENGTH, MAX_LENGTH + 1}}

\* lines 49-61, one round of the prompt loop; the result is
\* [done, value]
input_int(rawin, min_val, max_val, default) ==
    IF rawin.kind = "empty" THEN [done |-> TRUE, value |-> default]
    ELSE IF rawin.kind = "int" /\ min_val <= rawin.val /\ rawin.val <= max_val
         THEN [done |-> TRUE, value |-> rawin.val]
    ELSE [done |-> FALSE, value |-> 0]

\* line 186
InputLength ==
    /\ mpc = "input_int"
    /\ \E rawin \in RawInts :
          LET r == input_int(rawin, MIN_LENGTH, MAX_LENGTH, DEFAULT_LENGTH)
          IN  IF r.done
              THEN /\ cfg' = [cfg EXCEPT !.len = r.value]
                   /\ mpc' = "input_bool"
              ELSE UNCHANGED << cfg, mpc >>
    /\ UNCHANGED << coreVars, rng, passwords, raw, stdout, clip_calls,
                    clipboard, gen_err, exit_status >>

\* lines 202-203
CategoriesFit(length, u, l, d, s) ==
    LET n(b) == IF b THEN 1 ELSE 0
    IN  ~(length < n(u) + n(l) + n(d) + n(s))

\* lines 191-208, one round of the loop: the four answers of input_bool
InputCategories ==
    /\ mpc = "input_bool"
    /\ \E u \in BOOLEAN, l \in BOOLEAN, d \in BOOLEAN, s \in BOOLEAN :
          IF (u \/ l \/ d \/ s) /\ CategoriesFit(cfg.len, u, l, d, s)
          THEN /\ cfg' = [cfg EXCEPT !.u = u, !.l = l, !.d = d, !.s = s,
                                     !.count = 1]
               /\ mpc' = IF s THEN "input_safe" ELSE "generate"
          ELSE UNCHANGED << cfg, mpc >>
    /\ UNCHANGED << coreVars, rng, passwords, raw, stdout, clip_calls,
                    clipboard, gen_err, exit_status >>

\* lines 211-212
InputSafe ==
    /\ mpc = "input_safe"
    /\ \E safe \in BOOLEAN : cfg' = [cfg EXCEPT !.safe = safe]
    /\ mpc' = "generate"
    /\ UNCHANGED << coreVars, rng, passwords, raw, stdout, clip_calls,
                    clipboard, gen_err, exit_status >>

\* lines 168-180: the exit status of run_selftest
run_selftest(stream) ==
    LET r == Run(NewFrame([length |-> 20, use_upper |-> TRUE,
                           use_lower |-> TRUE, use_digits |-> TRUE,
                           use_symbols |-> TRUE, use_safe |-> FALSE,
                           custom_chars |-> None], stream, 0))
    IN  IF r.pc = "returned" /\ Len(r.password) = 20 THEN EXIT_SUCCESS
        ELSE EXIT_TEST_FAIL

\* line 242: --selftest
SelfTest ==
    /\ mpc = "start"
    /\ \E stream \in MainStreams : Exit(run_selftest(stream))
    /\ UNCHANGED << coreVars, cfg, rng, passwords, raw, stdout, clip_calls,
                    clipboard, gen_err >>

\* lines 241-261: command-line arguments
ParseArgs ==
    /\ mpc = "start"
    /\ \E args \in Args, stream \in MainStreams :
          /\ cfg' = ParseConfig(args)
          /\ rng' = [a |-> stream.a, b |-> stream.b, draws |-> 0]
          /\ mpc' = LoopTarget(cfg', 0)
    /\ UNCHANGED << coreVars, passwords, raw, stdout, clip_calls, clipboard,
                    gen_err, exit_status >>

\* lines 265-269, one iteration; a ValueError goes to lines 300-302
GenerateOne ==
    /\ mpc = "generate"
    /\ LET r == Run(NewFrame(CfgRequest(cfg), [a |-> rng.a, b |-> rng.b],
                             rng.draws))
       IN  /\ rng' = [rng EXCEPT !.draws = r.draws]
           /\ IF r.pc = "raised"
              THEN /\ gen_err' = r.err
                   /\ Exit(EXIT_ARG_ERROR)
                   /\ UNCHANGED << passwords, raw >>
              ELSE /\ raw' = r.password
                   /\ passwords' =
                        Append(passwords,
                               [pwd |-> format_output(r.password, cfg.group,
                                                      cfg.sep),
                                bits |-> r.entropy])
                   /\ mpc' = LoopTarget(cfg, Len(passwords'))
                   /\ UNCHANGED << gen_err, exit_status >>
    /\ UNCHANGED << coreVars, cfg, stdout, clip_calls, clipboard >>

\* lines 271-285: every password is printed; then the copy, or the end of main
PrintAll ==
    /\ mpc = "print"
    /\ stdout' = [i \in 1..Len(passwords) |-> passwords[i].pwd]
    /\ IF cfg.copy /\ stdout' # << >>
       THEN mpc' = "copy" /\ UNCHANGED exit_status
       ELSE Exit(EXIT_SUCCESS)
    /\ UNCHANGED << coreVars, cfg, rng, passwords, raw, clip_calls,
                    clipboard, gen_err >>

\* lines 136-154: the clipboard tool succeeds, or fails
copy_to_clipboard(text, ok) ==
    /\ clip_calls' = Append(clip_calls, [text |-> text, ok |-> ok])
    /\ clipboard' = IF ok THEN text ELSE clipboard

\* faulty variant of Copy: a failed copy is treated like a successful one
CopyIgnoringFailure ==
    /\ mpc = "copy"
    /\ \E ok \in BOOLEAN :
          /\ copy_to_clipboard(ClipText(stdout), ok)
          /\ IF cfg.clear > 0
             THEN mpc' = "clear" /\ UNCHANGED exit_status
             ELSE Exit(EXIT_SUCCESS)
    /\ UNCHANGED << coreVars, cfg, rng, passwords, raw, stdout, gen_err >>

\* lines 286-298
Copy ==
    /\ mpc = "copy"
    /\ \E ok \in BOOLEAN :
          /\ copy_to_clipboard(ClipText(stdout), ok)
          /\ IF ok
             THEN IF cfg.clear > 0
                  THEN mpc' = "clear" /\ UNCHANGED exit_status
                  ELSE Exit(EXIT_SUCCESS)
             ELSE Exit(EXIT_SYS_ERROR)
    /\ UNCHANGED << coreVars, cfg, rng, passwords, raw, stdout, gen_err >>

\* lines 156-162 and 294-295: after the sleep the clipboard is overwritten
\* with " " and the result of that copy is ignored; or the sleep is
\* interrupted (lines 161-162) and nothing is copied; then main ends
ClearClipboard ==
    /\ mpc = "clear"
    /\ \/ \E ok \in BOOLEAN : copy_to_clipboard(<< 32 >>, ok)
       \/ UNCHANGED << clip_calls, clipboard >>
    /\ Exit(EXIT_SUCCESS)
    /\ UNCHANGED << coreVars, cfg, rng, passwords, raw, stdout, gen_err >>

NextMain ==
    \/ StartInteractive
    \/ InputLength
    \/ InputCategories
    \/ InputSafe
    \/ SelfTest
    \/ ParseArgs
    \/ GenerateOne
    \/ PrintAll
    \/ Copy
    \/ ClearClipboard

SpecMain == Init /\ [][NextMain]_vars

\* ----------------------------------------------------------------- claims
\* the number of enabled named categories of a request
CategoryCount(req) ==
    LET n(b) == IF b THEN 1 ELSE 0
    IN  n(req.use_lower) + n(req.use_upper) + n(req.use_digits)
        + n(req.use_symbols)

\* the size of the universe, from the arguments alone
UniverseSize(req) ==
    IF Truthy(req.custom_chars) THEN Len(req.custom_chars.val)
    ELSE (IF req.use_lower THEN 26 ELSE 0) + (IF req.use_upper THEN 26 ELSE 0)
         + (IF req.use_digits THEN 10 ELSE 0)
         + (IF req.use_symbols THEN (IF req.use_safe THEN 24 ELSE 32) ELSE 0)

\* a request that passes validation, in the words of C1
ValidRequest(req) ==
    /\ req.length >= MIN_LENGTH
    /\ IF Truthy(req.custom_chars)
       THEN Cardinality(Range(req.custom_chars.val)) >= 2
       ELSE CategoryCount(req) >= 1

SymbolSet(req) ==
    IF req.use_safe THEN Range(CHARS_SYMBOLS_SAFE) ELSE Range(CHARS_SYMBOLS)

\* C1: every valid request returns, and the returned password has exactly
\* `length` characters: one per pool plus length - len(pools) fill draws, and
\* the shuffle keeps the length.
C1_LengthExact ==
    /\ (Finished(gen) /\ ValidRequest(gen.req)) => gen.pc = "returned"
    /\ gen.pc \in {"shuffle", "return", "returned"} =>
          /\ ValidRequest(gen.req)
          /\ Len(gen.password_chars) = gen.req.length
    /\ gen.pc = "fill" =>
          Len(gen.password_chars) + gen.fill_left = gen.req.length
    /\ gen.pc = "returned" => Len(gen.password) = gen.req.length

C1_Witness ==
    /\ gen.pc = "returned"
    /\ Len(gen.pools) = 4
    /\ gen.req.length > MIN_LENGTH
    /\ Len(gen.password) = gen.req.length

\* C2: without a custom pool, the returned password holds at least one
\* character of each enabled category (of the selected symbol set for
\* symbols).
C2_EveryCategoryPresent ==
    (gen.pc = "returned" /\ ~Truthy(gen.req.custom_chars)) =>
       LET chars == Range(gen.password)
       IN  /\ gen.req.use_lower => chars \cap Range(CHARS_LOWER) # {}
           /\ gen.req.use_upper => chars \cap Range(CHARS_UPPER) # {}
           /\ gen.req.use_digits => chars \cap Range(CHARS_DIGITS) # {}
           /\ gen.req.use_symbols => chars \cap SymbolSet(gen.req) # {}

C2_Witness ==
    /\ gen.pc = "returned"
    /\ ~Truthy(gen.req.custom_chars)
    /\ CategoryCount(gen.req) = 4
    /\ gen.req.use_safe
    /\ Range(gen.password) \cap Range(CHARS_SYMBOLS_SAFE) # {}
    /\ gen.password[1] \notin Range(CHARS_LOWER)

\* C3: validation comes before any random draw: while the pools are built
\* and validated, and in every call that ends in a validation error, no draw
\* has been made, the working buffer is empty and no password is returned.
C3_ValidationBeforeDraws ==
    gen.pc \in {"build", "validate", "raised"} =>
       /\ gen.draws = 0
       /\ gen.password_chars = << >>
       /\ gen.password = << >>

C3_Witness ==
    /\ gen.pc = "raised"
    /\ gen.err = LengthTooShort
    /\ gen.full_pool # << >>
    /\ gen.draws = 0

\* C4 as stated: a request with length < k (k enabled categories, no custom
\* pool) fails with LengthBelowCategoryMinimum.
C4_Original ==
    (/\ Finished(gen)
     /\ ~Truthy(gen.req.custom_chars)
     /\ CategoryCount(gen.req) >= 1
     /\ gen.req.length < CategoryCount(gen.req)) =>
       (gen.pc = "raised" /\ gen.err = LengthBelowCategoryMinimum)

\* C4 amended: a request with length < k (k enabled categories, no custom
\* pool) fails with LengthTooShort, the minimum-length check coming first;
\* no call fails with LengthBelowCategoryMinimum.
C4_LengthTooShortFirst ==
    /\ (/\ Finished(gen)
        /\ ~Truthy(gen.req.custom_chars)
        /\ CategoryCount(gen.req) >= 1
        /\ gen.req.length < CategoryCount(gen.req)) =>
          (gen.pc = "raised" /\ gen.err = LengthTooShort)
    /\ gen.err # LengthBelowCategoryMinimum

C4_Witness ==
    /\ gen.pc = "raised"
    /\ gen.err = LengthTooShort
    /\ ~Truthy(gen.req.custom_chars)
    /\ CategoryCount(gen.req) = 4
    /\ gen.req.length = 3

\* C5 as stated: a request that supplies a custom pool with fewer than two
\* distinct characters fails with InvalidPool.
C5_InvalidPool ==
    (/\ Finished(gen)
     /\ gen.req.custom_chars.given
     /\ Cardinality(Range(gen.req.custom_chars.val)) < 2) =>
       (gen.pc = "raised" /\ gen.err = InvalidPool)

\* C6: with no category and no custom pool the call fails with
\* NoCategorySelected, whatever the length.
C6_NoCategorySelected ==
    (/\ Finished(gen)
     /\ ~gen.req.custom_chars.given
     /\ CategoryCount(gen.req) = 0) =>
       (gen.pc = "raised" /\ gen.err = NoCategorySelected)

C6_Witness ==
    /\ gen.pc = "raised"
    /\ gen.err = NoCategorySelected
    /\ ~gen.req.custom_chars.given
    /\ CategoryCount(gen.req) = 0
    /\ gen.req.length < MIN_LENGTH

\* C7: the length and the entropy of a result depend on the arguments alone:
\* the entropy is length * log2(universe size, repeated characters
\* included), and a second call with the same arguments agrees with the
\* first on both, whatever the draws.
C7_EntropyDeterministic ==
    gen.pc = "returned" =>
       /\ Len(gen.password) = gen.req.length
       /\ gen.entropy = gen.req.length * Log2(UniverseSize(gen.req))
       /\ prev.calls = 1 =>
             /\ Len(gen.password) = prev.length
             /\ gen.entropy = prev.entropy

C7_Witness ==
    /\ gen.pc = "returned"
    /\ prev.calls = 1
    /\ gen.req.custom_chars = Some(<< 97, 97, 98 >>)
    /\ gen.entropy = gen.req.length * Log2(3)

\* C8 as stated: every password main generates and prints has between
\* MIN_LENGTH and MAX_LENGTH characters, and a requested length above
\* MAX_LENGTH yields no password.
C8_LengthBounds ==
    /\ passwords # << >> =>
          (MIN_LENGTH <= Len(raw) /\ Len(raw) <= MAX_LENGTH)
    /\ cfg.len > MAX_LENGTH => (passwords = << >> /\ stdout = << >>)

\* C9: every character of the buffer and of the returned password is a
\* character of the universe; a valid custom pool is used alone: one pool,
\* the universe is the custom pool, flags and symbol mode play no part.
C9_CharactersFromUniverse ==
    /\ Range(gen.password_chars) \subseteq Range(gen.full_pool)
    /\ Range(gen.password) \subseteq Range(gen.full_pool)
    /\ (gen.pc \notin {"idle", "build", "raised"}
        /\ Truthy(gen.req.custom_chars)) =>
          /\ gen.pools = << gen.req.custom_chars.val >>
          /\ gen.full_pool = gen.req.custom_chars.val
    /\ (gen.pc = "returned" /\ Truthy(gen.req.custom_chars)) =>
          Range(gen.password) \subseteq Range(gen.req.custom_chars.val)

C9_Witness ==
    /\ gen.pc = "returned"
    /\ Truthy(gen.req.custom_chars)
    /\ CategoryCount(gen.req) = 4
    /\ Len(gen.pools) = 1
    /\ gen.password # << >>

\* C10: the clipboard is written only after all `count` passwords were
\* generated and printed and copy was requested; the clear happens only after
\* a successful copy with clear > 0; a failed copy ends the run with
\* EXIT_SYS_ERROR and no clear; a validation error ends the run with
\* EXIT_ARG_ERROR with nothing printed or copied.
C10_ClipboardOrder ==
    /\ Len(clip_calls) <= 2
    /\ clip_calls # << >> =>
          /\ cfg.copy
          /\ cfg.count >= 1
          /\ Len(passwords) = cfg.count
          /\ Len(stdout) = cfg.count
          /\ gen_err = NoError
          /\ clip_calls[1].text = ClipText(stdout)
    /\ Len(clip_calls) = 2 =>
          /\ clip_calls[1].ok
          /\ cfg.clear > 0
          /\ clip_calls[2].text = << 32 >>
    /\ (clip_calls # << >> /\ ~clip_calls[1].ok) =>
          /\ mpc = "exit"
          /\ exit_status = EXIT_SYS_ERROR
          /\ Len(clip_calls) = 1
          /\ clipboard = << >>
    /\ gen_err # NoError =>
          /\ mpc = "exit"
          /\ exit_status = EXIT_ARG_ERROR
          /\ passwords = << >>
          /\ stdout = << >>
          /\ clip_calls = << >>
          /\ clipboard = << >>

C10_Witness ==
    /\ mpc = "exit"
    /\ exit_status = EXIT_SUCCESS
    /\ Len(passwords) = 2
    /\ Len(clip_calls) = 2
    /\ clip_calls[2].ok
    /\ clipboard = << 32 >>

====
